---------------------------- MODULE Spec2Model ----------------------------
(***************************************************************************)
(* Model of wikai: the in-memory vector index (package search), the        *)
(* embedding codec (package embedding) and the conversation backend with   *)
(* its cache of recent chats (package backai).                             *)
(*                                                                         *)
(* Representation choices                                                  *)
(*  - a []float64 of the index is a record [nil, e]: nil distinguishes the *)
(*    Go nil slice from an allocated one, e holds small integers so that   *)
(*    cosine distances are compared exactly;                               *)
(*  - a cosine distance is kept as the exact rational n/d that equals      *)
(*    sgn(dot) * dot^2 / (|a|^2 * |b|^2); the distance is                  *)
(*    1 - sgn(n) * sqrt(|n| / d), so distances are ordered by the reverse  *)
(*    order of n/d;                                                        *)
(*  - time.Time values are natural numbers;                                *)
(*  - a float64 of the codec is its IEEE-754 bit pattern, held as four     *)
(*    16-bit limbs, most significant first; a string of the codec is a     *)
(*    sequence of characters; a base64 character is its 6-bit value, 64    *)
(*    stands for the padding character and 65 for a character outside the  *)
(*    alphabet.                                                            *)
(***************************************************************************)
EXTENDS Integers, Sequences, FiniteSets, TLC

VARIABLES
    rows,       \* db.rows: map from document id to row{vector, stamp}
    idxOp,      \* the last call made on the index, its arguments and result
    codec,      \* the embedding codec: the value marshalled, the JSON record
                \* at hand, the destination Embedding and the last error
    cache,      \* recentChats.cache: the keys of the lru.Cache, most recently
                \* used first
    chats,      \* the lingograph.Chat of each chat id that a caller can still
                \* use (a Query runs on it, or a Query returned its id): the last
                \* message of its history and its store (doSummarizeVar, responseVar)
    minted,     \* number of chat ids minted by uuid.New
    touched,    \* for each cached key, the time of the last get that found it
                \* or of its add
    tick,       \* number of touches so far
    evicted,    \* the keys removed from the cache, in order
    turn,       \* the Query call each request handler is in, and where it stands
    queries,    \* number of Query calls made
    disclosed,  \* the chat ids that Query has returned to a caller
    docs,       \* the pages wiki.Write has stored
    notes,      \* the persistence log (git notes): its records and the
                \* records that loadEmbeddings has visited
    calls       \* for each goroutine, the call on the index it is in and
                \* where it stands in it

idxVars == <<rows, idxOp>>
storeVars == <<cache, chats, minted, touched, tick, evicted>>
backVars == <<turn, queries, disclosed, docs>>

\* what the index operations, and the codec operations, leave alone
notIdx == <<codec, storeVars, backVars, notes, calls>>
notCodec == <<rows, idxOp, storeVars, backVars, notes, calls>>

vars == <<rows, idxOp, codec, cache, chats, minted, touched, tick, evicted, turn, queries,
          disclosed, docs, notes, calls>>

-----------------------------------------------------------------------------
(* Bounds of the index model *)

MaxStamp == 1
MaxK == 4

Ids == {"a", "b"}
SearchIds == {"a", "b", "c", "d"}
Stamps == 0..MaxStamp
Ks == (0 - 1)..MaxK

Vec(e) == [nil |-> FALSE, e |-> e]
NilVec == [nil |-> TRUE, e |-> <<>>]

\* an allocated slice of length 0, as make([]float64, 0) returns
EmptyVec == Vec(<<>>)

\* non-zero vectors of the configured dimensionality (2)
QueryVecs == {Vec(<<1, 0>>), Vec(<<1, 1>>), Vec(<<0 - 1, 0>>)}
Vecs == QueryVecs \cup {Vec(<<2, 0>>), NilVec, EmptyVec}

-----------------------------------------------------------------------------
(* package search: cosine distance *)

RECURSIVE Dot(_, _)
Dot(a, b) == IF a = <<>> THEN 0 ELSE Head(a) * Head(b) + Dot(Tail(a), Tail(b))

Sgn(x) == IF x > 0 THEN 1 ELSE IF x < 0 THEN 0 - 1 ELSE 0

cosineSimilarity(a, b) ==
    LET dotProduct == Dot(a.e, b.e)
    IN  [n |-> Sgn(dotProduct) * dotProduct * dotProduct,
         d |-> Dot(a.e, a.e) * Dot(b.e, b.e)]

\* 1 - similarity: the similarity is kept, the order is reversed by DistLess
cosineDistance(a, b) == cosineSimilarity(a, b)

\* x < y on distances
DistLess(x, y) == x.n * y.d > y.n * x.d

DistEq(x, y) == x.n * y.d = y.n * x.d

DistIsZero(x) == x.n = x.d

-----------------------------------------------------------------------------
(* package search: db.Add *)

Row(emb, stamp) == [vector |-> emb, stamp |-> stamp]

\* time.Time.After
After(t, u) == t > u

AddSkipsBuggy(rs, id, stamp) == id \in DOMAIN rs /\ ~After(stamp, rs[id].stamp)

\* the early return of db.Add
AddSkips(rs, id, stamp) == id \in DOMAIN rs /\ After(rs[id].stamp, stamp)

assignNothing(rs, id, emb, stamp) == rs

\* db.rows[id] = row{vector: emb, stamp: stamp}
assign(rs, id, emb, stamp) ==
    [x \in DOMAIN rs \cup {id} |-> IF x = id THEN Row(emb, stamp) ELSE rs[x]]

dbAddArrival(rs, id, emb, stamp) ==
    [x \in DOMAIN rs \cup {id} |-> IF x = id THEN Row(emb, stamp) ELSE rs[x]]

dbAdd(rs, id, emb, stamp) ==
    IF AddSkips(rs, id, stamp) THEN rs ELSE assign(rs, id, emb, stamp)

-----------------------------------------------------------------------------
(* package search: resultHeap, bestResults and db.Search.  Heap positions    *)
(* are 0-based as in the source; the sequence holding the heap is 1-based.   *)

Result(path, distance) == [Path |-> path, Distance |-> distance]

LessBuggy(h, i, j) == DistLess(h[i + 1].Distance, h[j + 1].Distance)

\* resultHeap.Less: h[i].Distance > h[j].Distance
Less(h, i, j) == DistLess(h[j + 1].Distance, h[i + 1].Distance)

\* resultHeap.Swap
Swap(h, i, j) ==
    [x \in 1..Len(h) |-> IF x = i + 1 THEN h[j + 1] ELSE IF x = j + 1 THEN h[i + 1] ELSE h[x]]

\* container/heap up, as run by heap.Push
RECURSIVE up(_, _)
up(h, j) ==
    LET i == IF j = 0 THEN 0 ELSE (j - 1) \div 2
    IN  IF i = j \/ ~Less(h, j, i) THEN h ELSE up(Swap(h, i, j), i)

\* container/heap down, as run by heap.Pop
RECURSIVE down(_, _, _)
down(h, i, n) ==
    LET j1 == 2 * i + 1
    IN  IF j1 >= n
        THEN h
        ELSE LET j == IF j1 + 1 < n /\ Less(h, j1 + 1, j1) THEN j1 + 1 ELSE j1
             IN  IF ~Less(h, j, i) THEN h ELSE down(Swap(h, i, j), j, n)

heapPush(h, x) == up(Append(h, x), Len(h))

heapPop(h) ==
    LET n == Len(h) - 1
    IN  SubSeq(down(Swap(h, 0, n), 0, n), 1, n)

\* bestResults.add
brAdd(h, maxSize, result) ==
    LET h1 == heapPush(h, result)
    IN  IF Len(h1) > maxSize THEN heapPop(h1) ELSE h1

\* the orders in which a range over a map with key set S can visit the keys
Orders(S) ==
    {o \in [1..Cardinality(S) -> S] : \A i, j \in 1..Cardinality(S) : i # j => o[i] # o[j]}

Ascending(s) == \A i, j \in 1..Len(s) : i < j => ~DistLess(s[j].Distance, s[i].Distance)

\* bestResults.get: sort.Slice by ascending distance; the order of equal
\* distances is whatever the sort leaves
brGet(h) ==
    {[i \in 1..Len(h) |-> h[p[i]]] : p \in {q \in Orders(1..Len(h)) :
        Ascending([i \in 1..Len(h) |-> h[q[i]]])}}

\* the loop of db.Search over the rows in the order given
RECURSIVE searchLoop(_, _, _, _, _)
searchLoop(rs, order, query, maxResults, h) ==
    IF order = <<>>
    THEN h
    ELSE LET id == Head(order)
             h1 == IF rs[id].vector.nil
                   THEN h
                   ELSE brAdd(h, maxResults, Result(id, cosineDistance(query, rs[id].vector)))
         IN  searchLoop(rs, Tail(order), query, maxResults, h1)

\* mat.NewVecDense panics on a slice of length 0 and mat.Dot on vectors of
\* different lengths: cosineSimilarity does not return for such a pair
similarityPanics(a, b) == Len(a.e) = 0 \/ Len(b.e) = 0 \/ Len(a.e) # Len(b.e)

\* the loop of db.Search reaches a row on which cosineDistance panics
searchPanics(rs, query) ==
    \E id \in DOMAIN rs : ~rs[id].vector.nil /\ similarityPanics(query, rs[id].vector)

\* the results of a db.Search that returns
dbSearch(rs, order, query, maxResults) == brGet(searchLoop(rs, order, query, maxResults, <<>>))

\* db.NumRows
dbNumRows(rs) == Cardinality(DOMAIN rs)

\* db.DocStamp
dbDocStamp(rs, id) ==
    IF id \in DOMAIN rs THEN [stamp |-> rs[id].stamp, ok |-> TRUE] ELSE [stamp |-> 0, ok |-> FALSE]

-----------------------------------------------------------------------------
(* package embedding: Embedding.MarshalJSON / Embedding.UnmarshalJSON *)

MaxVecLen == 2

\* 0.0, 1.0, 0.1, -Inf and a NaN with a payload
Floats == {<<0, 0, 0, 0>>, <<16368, 0, 0, 0>>, <<16313, 39321, 39321, 39322>>,
           <<65520, 0, 0, 0>>, <<32760, 0, 0, 1>>}

CodecIds == {<<"n">>, <<"n", "\"">>, <<"\\", "n">>}

Embedding(id, vector) == [ID |-> id, Vector |-> vector]

\* the zero value of the struct
ZeroEmbedding == Embedding(<<>>, NilVec)

SeqsUpTo(S, n) == UNION {[1..m -> S] : m \in 0..n}

Embeddings ==
    {Embedding(id, v) : id \in CodecIds,
                        v \in {Vec(e) : e \in SeqsUpTo(Floats, MaxVecLen)} \cup {NilVec}}

\* math.Float64bits / math.Float64frombits: the bit pattern itself
Float64bits(f) == f
Float64frombits(bits) == bits

PutUint64BigEndian(bits) ==
    <<bits[1] \div 256, bits[1] % 256, bits[2] \div 256, bits[2] % 256,
      bits[3] \div 256, bits[3] % 256, bits[4] \div 256, bits[4] % 256>>

\* binary.LittleEndian.PutUint64
PutUint64(bits) ==
    <<bits[4] % 256, bits[4] \div 256, bits[3] % 256, bits[3] \div 256,
      bits[2] % 256, bits[2] \div 256, bits[1] % 256, bits[1] \div 256>>

\* binary.LittleEndian.Uint64 of the 8 bytes of b that start at offset off
Uint64(b, off) ==
    <<b[off + 8] * 256 + b[off + 7], b[off + 6] * 256 + b[off + 5],
      b[off + 4] * 256 + b[off + 3], b[off + 2] * 256 + b[off + 1]>>

\* the buffer filled by the loop of MarshalJSON
RECURSIVE vectorBytes(_)
vectorBytes(e) ==
    IF e = <<>> THEN <<>> ELSE PutUint64(Float64bits(Head(e))) \o vectorBytes(Tail(e))

\* base64.StdEncoding.EncodeToString
RECURSIVE EncodeToString(_)
EncodeToString(b) ==
    IF Len(b) = 0 THEN <<>>
    ELSE IF Len(b) = 1 THEN <<b[1] \div 4, (b[1] % 4) * 16, 64, 64>>
    ELSE IF Len(b) = 2
         THEN <<b[1] \div 4, (b[1] % 4) * 16 + b[2] \div 16, (b[2] % 16) * 4, 64>>
    ELSE <<b[1] \div 4, (b[1] % 4) * 16 + b[2] \div 16, (b[2] % 16) * 4 + b[3] \div 64,
           b[3] % 64>> \o EncodeToString(SubSeq(b, 4, Len(b)))

\* base64.StdEncoding.DecodeString: [ok, bytes]
RECURSIVE DecodeString(_)
DecodeString(s) ==
    IF Len(s) = 0 THEN [ok |-> TRUE, bytes |-> <<>>]
    ELSE IF Len(s) < 4 THEN [ok |-> FALSE, bytes |-> <<>>]
    ELSE IF s[1] < 64 /\ s[2] < 64 /\ s[3] < 64 /\ s[4] < 64
         THEN LET rest == DecodeString(SubSeq(s, 5, Len(s)))
              IN  [ok |-> rest.ok,
                   bytes |-> <<s[1] * 4 + s[2] \div 16, (s[2] % 16) * 16 + s[3] \div 4,
                               (s[3] % 4) * 64 + s[4]>> \o rest.bytes]
    ELSE IF Len(s) = 4 /\ s[1] < 64 /\ s[2] < 64 /\ s[3] = 64 /\ s[4] = 64
         THEN [ok |-> TRUE, bytes |-> <<s[1] * 4 + s[2] \div 16>>]
    ELSE IF Len(s) = 4 /\ s[1] < 64 /\ s[2] < 64 /\ s[3] < 64 /\ s[4] = 64
         THEN [ok |-> TRUE, bytes |-> <<s[1] * 4 + s[2] \div 16, (s[2] % 16) * 16 + s[3] \div 4>>]
    ELSE [ok |-> FALSE, bytes |-> <<>>]

\* encoding/json on a string: a quote or a backslash is written with a
\* backslash before it
RECURSIVE jsonQuote(_)
jsonQuote(str) ==
    IF str = <<>> THEN <<>>
    ELSE IF Head(str) \in {"\"", "\\"} THEN <<"\\", Head(str)>> \o jsonQuote(Tail(str))
    ELSE <<Head(str)>> \o jsonQuote(Tail(str))

RECURSIVE jsonUnquote(_)
jsonUnquote(str) ==
    IF str = <<>> THEN <<>>
    ELSE IF Head(str) = "\\" /\ Len(str) >= 2 THEN <<str[2]>> \o jsonUnquote(SubSeq(str, 3, Len(str)))
    ELSE <<Head(str)>> \o jsonUnquote(Tail(str))

\* the JSON text of a jsonEmbedding; json is FALSE for a text that
\* json.Unmarshal rejects
Wire(json, id, vector) == [json |-> json, id |-> id, vector |-> vector]

NoWire == Wire(FALSE, <<>>, <<>>)

MarshalJSON(e) == Wire(TRUE, jsonQuote(e.ID), EncodeToString(vectorBytes(e.Vector.e)))

\* the loop of UnmarshalJSON over make([]float64, len(buf)/8)
decodeVector(buf) == [i \in 1..(Len(buf) \div 8) |-> Float64frombits(Uint64(buf, (i - 1) * 8))]

\* UnmarshalJSON on the destination e: [e, err]
UnmarshalJSON(e, data) ==
    IF ~data.json
    THEN [e |-> e, err |-> "json"]
    ELSE LET buf == DecodeString(data.vector)
         IN  IF ~buf.ok
             THEN [e |-> e, err |-> "failed to decode vector base64"]
             ELSE [e |-> Embedding(jsonUnquote(data.id), Vec(decodeVector(buf.bytes))),
                   err |-> "nil"]

(* The codec as a state machine: one Embedding is marshalled, the record may  *)
(* be cut short or altered on its way through the log, and it is unmarshalled  *)
(* into a destination that is a fresh variable or holds an earlier value.      *)

Destinations == {ZeroEmbedding, Embedding(<<"n">>, Vec(<<<<16368, 0, 0, 0>>>>))}

Codec(op, src, wire, intact, prev, dst, err) ==
    [op |-> op, src |-> src, wire |-> wire, intact |-> intact, prev |-> prev, dst |-> dst,
     err |-> err]

InitCodec == codec = Codec("none", ZeroEmbedding, NoWire, FALSE, ZeroEmbedding, ZeroEmbedding, "nil")

CodecMarshal(e) ==
    /\ codec.op = "none"
    /\ codec' = Codec("Marshal", e, MarshalJSON(e), TRUE, codec.dst, codec.dst, "nil")
    /\ UNCHANGED notCodec

\* the record loses the last n bytes of its blob
CodecCutBlob(n) ==
    /\ codec.op = "Marshal"
    /\ LET buf == DecodeString(codec.wire.vector).bytes
       IN  /\ n <= Len(buf)
           /\ codec' = [codec EXCEPT !.op = "Cut", !.intact = FALSE,
                          !.wire.vector = EncodeToString(SubSeq(buf, 1, Len(buf) - n))]
    /\ UNCHANGED notCodec

\* the record loses the last n characters of its base64 text
CodecCutText(n) ==
    /\ codec.op = "Marshal"
    /\ n <= Len(codec.wire.vector)
    /\ codec' = [codec EXCEPT !.op = "Cut", !.intact = FALSE,
                   !.wire.vector = SubSeq(codec.wire.vector, 1, Len(codec.wire.vector) - n)]
    /\ UNCHANGED notCodec

\* a character of the base64 text is replaced by one outside the alphabet
CodecBadChar(i) ==
    /\ codec.op = "Marshal"
    /\ i <= Len(codec.wire.vector)
    /\ codec' = [codec EXCEPT !.op = "Cut", !.intact = FALSE, !.wire.vector[i] = 65]
    /\ UNCHANGED notCodec

\* the record is not JSON at all
CodecBadJSON ==
    /\ codec.op = "Marshal"
    /\ codec' = [codec EXCEPT !.op = "Cut", !.intact = FALSE, !.wire.json = FALSE]
    /\ UNCHANGED notCodec

CodecUnmarshal(dst) ==
    /\ codec.op \in {"Marshal", "Cut"}
    /\ LET r == UnmarshalJSON(dst, codec.wire)
       IN  codec' = [codec EXCEPT !.op = "Unmarshal", !.prev = dst, !.dst = r.e,
                                  !.err = r.err]
    /\ UNCHANGED notCodec

NextCodec ==
    \/ \E e \in Embeddings : CodecMarshal(e)
    \/ \E n \in 1..7 : CodecCutBlob(n)
    \/ \E n \in 1..3 : CodecCutText(n)
    \/ \E i \in 1..4 : CodecBadChar(i)
    \/ CodecBadJSON
    \/ \E dst \in Destinations : CodecUnmarshal(dst)


-----------------------------------------------------------------------------
(* package backai: recentChats, a mutex around an lru.Cache of                *)
(* recentChatsLimit entries.  A chat id is a positive number; 0 is the empty   *)
(* string.                                                                     *)

recentChatsLimit == 10

MaxTurns == 2       \* request handlers that run Query at the same time
MaxQueries == 3     \* Query calls in a run of the backend
MaxMints == 12      \* chats created in a run of the store alone
MaxHits == 2        \* gets that find their key in a run of the store alone
MaxCrowdQueries == 1    \* Query calls of the one client watched in a crowd
MaxPairQueries == 2     \* Query calls in a short run of concurrent handlers

EmptyId == 0
UnknownId == 99     \* a key no uuid.New ever returned

Elems(c) == {c[i] : i \in 1..Len(c)}

Without(c, key) == SelectSeq(c, LAMBDA x : x # key)

lruGetNoMove(c, key) == [c |-> c, ok |-> key \in Elems(c)]

\* lru.Cache.Get: a hit moves the entry to the front
lruGet(c, key) ==
    IF key \in Elems(c)
    THEN [c |-> <<key>> \o Without(c, key), ok |-> TRUE]
    ELSE [c |-> c, ok |-> FALSE]

\* an Add that never removes the oldest entry
lruAddNoEvict(c, key) ==
    IF key \in Elems(c) THEN <<key>> \o Without(c, key) ELSE <<key>> \o c

\* lru.Cache.Add: a known key moves to the front, a new one is pushed to the
\* front and the oldest entry is removed when the list outgrows MaxEntries
lruAdd(c, key) ==
    IF key \in Elems(c)
    THEN <<key>> \o Without(c, key)
    ELSE IF Len(c) + 1 > recentChatsLimit
         THEN <<key>> \o SubSeq(c, 1, Len(c) - 1)
         ELSE <<key>> \o c

Msg(kind, q, arg) == [kind |-> kind, q |-> q, arg |-> arg]
NoMsg == Msg("none", 0, "")

\* api.PostResponse
PostResponse(message, references, prefix, chatId) ==
    [Message |-> message, References |-> references, ReferencePrefix |-> prefix,
     ChatID |-> chatId]

ZeroResponse == PostResponse(NoMsg, {}, "", EmptyId)

wikiPrefix == "/wiki"

\* store.Var: ok tells whether the variable was ever set
Unset(zero) == [ok |-> FALSE, val |-> zero]
SetTo(v) == [ok |-> TRUE, val |-> v]

\* lingograph.NewChat
NewChat == [last |-> NoMsg, doSummarize |-> Unset(FALSE), response |-> Unset(ZeroResponse)]

InitStore ==
    /\ cache = <<>>
    /\ chats = <<>>
    /\ minted = 0
    /\ touched = <<>>
    /\ tick = 0
    /\ evicted = <<>>

\* the touch times after key was touched in cache c, which becomes c1
Touch(c1, key) ==
    [k \in Elems(c1) |-> IF k = key THEN tick + 1 ELSE touched[k]]

\* a lookup that never finds the key
recentChatsGetNoHit(key) == [c |-> cache, ok |-> FALSE]

\* recentChats.get
recentChatsGet(key) ==
    IF key = EmptyId THEN [c |-> cache, ok |-> FALSE] ELSE lruGet(cache, key)

\* the effect of recentChats.get(key) on the store
StoreGetEffect(key) ==
    LET r == recentChatsGet(key)
    IN  /\ cache' = r.c
        /\ IF r.ok
           THEN touched' = Touch(r.c, key) /\ tick' = tick + 1
           ELSE UNCHANGED <<touched, tick>>
        /\ UNCHANGED <<chats, minted, evicted>>

\* uuid.New and recentChats.add (lines 238 and 241 of Query)
CacheAddEffect ==
    LET key == minted + 1
        c1 == lruAdd(cache, key)
    IN  /\ minted' = key
        /\ cache' = c1
        /\ touched' = Touch(c1, key)
        /\ tick' = tick + 1
        /\ evicted' = evicted \o SelectSeq(cache, LAMBDA k : k \notin Elems(c1))

\* lines 238-241 of Query: uuid.New, lingograph.NewChat and recentChats.add
StoreAddEffect ==
    /\ CacheAddEffect
    /\ chats' = [k \in DOMAIN chats \cup {minted + 1} |->
                    IF k = minted + 1 THEN NewChat ELSE chats[k]]

-----------------------------------------------------------------------------
(* package backai: Query and the two pipelines.  The Agent Runtime            *)
(* (lingograph) decides at each round whether the model answers in text or    *)
(* calls a tool; a stage ends with a text answer or after 3 rounds of tool     *)
(* calls.  Embed, wiki.Write, wiki.Read and the model call may fail.           *)

Turns == 1..MaxTurns

toolRounds == 3         \* actor.Pipeline(nil, false, 3)
searchMaxResults == 5   \* db.Search(vector, 5)

Paths == {"a"}
EmbedVecs == {Vec(<<1, 0>>)}

NoResult == [kind |-> "none", resp |-> ZeroResponse, err |-> ""]
OkResult(resp) == [kind |-> "ok", resp |-> resp, err |-> ""]
ErrResult(err) == [kind |-> "err", resp |-> ZeroResponse, err |-> err]

\* a handler not running Query.  Of a running one: q numbers the call, chatId
\* is the local chatId after line 242 (the chat it runs on), round counts the
\* tool rounds of the stage it is in, tools holds the tools
\* called in the retrieval stage, stage2 tells whether the summarization
\* pipeline was entered, summarized whether the summarize tool was called,
\* text is the last text answer of the model in this call, executed tells
\* whether pipeline.Execute returned nil, result is what Query returned
Idle ==
    [pc |-> "idle", q |-> 0, chatId |-> EmptyId, round |-> 0, tools |-> {},
     stage2 |-> FALSE, summarized |-> FALSE, text |-> NoMsg, executed |-> FALSE,
     result |-> NoResult]

MaxCallers == 2     \* goroutines that call the index at the same time

Callers == 1..MaxCallers

\* a goroutine that is in no call on the index.  Of one that is: op, id, emb,
\* stamp and k are the call and its arguments, pc where it stands, rows0 the
\* rows when a Search began, visited the keys its loop has been handed, got
\* the rows it was handed, h the heap of bestResults, res the result
NoCall ==
    [op |-> "none", pc |-> "idle", id |-> "", emb |-> [nil |-> TRUE, e |-> <<>>], stamp |-> 0,
     k |-> 0, rows0 |-> << >>, visited |-> {}, got |-> <<>>, h |-> <<>>, res |-> <<>>]

NoCalls == [g \in Callers |-> NoCall]

\* a log with no record
NoNotes == [recs |-> <<>>, visited |-> {}]

InitBack ==
    /\ turn = [t \in Turns |-> Idle]
    /\ queries = 0
    /\ disclosed = {}
    /\ docs = {}
    /\ notes = NoNotes
    /\ calls = NoCalls

Init ==
    /\ rows = << >>
    /\ idxOp = [op |-> "none", id |-> "", emb |-> NilVec, stamp |-> 0, had |-> FALSE,
                old |-> [vector |-> NilVec, stamp |-> 0], k |-> 0, res |-> <<>>]
    /\ InitCodec
    /\ InitStore
    /\ InitBack

ChatOf(t) == chats[turn[t].chatId]

Running(tr) == tr.pc \in {"prompt", "retrieve", "if", "summarize", "finalize"}

\* the chats that can still be used once the handlers stand as in tr and the
\* ids in dis have been returned: a chat whose Query has returned without
\* its id is out of every caller's reach, and its state is dropped
Reachable(chs, dis, tr) ==
    [id \in {i \in DOMAIN chs : i \in dis \/ \E u \in Turns : Running(tr[u]) /\ tr[u].chatId = i}
        |-> chs[id]]

\* line 236 of Query.  The request goes to a handler that is free (one that
\* never ran or whose Query has returned), the first of them.  A caller
\* passes no id, an id no chat ever had, or an id that a Query returned.
\* What the calls before returned is kept until the next call arrives.
QueryGet(t, key) ==
    /\ turn[t].pc \in {"idle", "done"}
    /\ \A u \in Turns : u < t => turn[u].pc \notin {"idle", "done"}
    /\ queries < MaxQueries
    /\ key \in {EmptyId, UnknownId} \cup disclosed
    /\ StoreGetEffect(key)
    /\ queries' = queries + 1
    /\ turn' = [u \in Turns |->
                  IF u = t
                  THEN [Idle EXCEPT !.q = queries + 1,
                                    !.pc = IF recentChatsGet(key).ok THEN "prompt" ELSE "add",
                                    !.chatId = IF recentChatsGet(key).ok THEN key ELSE EmptyId]
                  ELSE IF turn[u].pc = "done" THEN Idle ELSE turn[u]]
    /\ UNCHANGED <<rows, idxOp, notes, calls, codec, disclosed, docs>>

\* lines 237-242 of Query
QueryAdd(t) ==
    /\ turn[t].pc = "add"
    /\ StoreAddEffect
    /\ turn' = [turn EXCEPT ![t].pc = "prompt", ![t].chatId = minted + 1]
    /\ UNCHANGED <<rows, idxOp, notes, calls, codec, queries, disclosed, docs>>

\* a prompt that starts the turn with the variables of the chat unset
UserPromptResets(t) ==
    /\ turn[t].pc = "prompt"
    /\ chats' = [chats EXCEPT ![turn[t].chatId] =
                    [NewChat EXCEPT !.last = Msg("user", turn[t].q, "")]]
    /\ turn' = [turn EXCEPT ![t].pc = "retrieve", ![t].round = 0]
    /\ UNCHANGED <<rows, idxOp, notes, calls, codec, cache, minted, touched, tick, evicted, queries, disclosed, docs>>

\* lingograph.UserPrompt(userQuery, false)
UserPrompt(t) ==
    /\ turn[t].pc = "prompt"
    /\ chats' = [chats EXCEPT ![turn[t].chatId].last = Msg("user", turn[t].q, "")]
    /\ turn' = [turn EXCEPT ![t].pc = "retrieve", ![t].round = 0]
    /\ UNCHANGED <<rows, idxOp, notes, calls, codec, cache, minted, touched, tick, evicted, queries, disclosed, docs>>

\* the model call of either stage fails: pipeline.Execute returns the error
\* and Query returns it (lines 257-260)
ModelFails(t) ==
    /\ turn[t].pc \in {"retrieve", "summarize"}
    /\ turn' = [turn EXCEPT ![t].pc = "done", ![t].round = 0,
                             ![t].result = ErrResult("model")]
    /\ chats' = Reachable(chats, disclosed, turn')
    /\ UNCHANGED <<rows, idxOp, notes, calls, codec, cache, minted, touched, tick, evicted, queries, disclosed,
                   docs>>

\* a runtime that goes on calling the model when the rounds are used up
AfterToolNoCap(t, tr, err, propagate, next) ==
    IF err # "" /\ propagate
    THEN [tr EXCEPT !.pc = "done", !.round = 0, !.result = ErrResult(err)]
    ELSE IF tr.round + 1 >= toolRounds
         THEN tr
         ELSE [tr EXCEPT !.round = tr.round + 1]

\* where the stage stands after a tool round: the handler's error ends
\* Execute when the runtime propagates it, the round cap ends the stage
AfterTool(t, tr, err, propagate, next) ==
    IF err # "" /\ propagate
    THEN [tr EXCEPT !.pc = "done", !.round = 0, !.result = ErrResult(err)]
    ELSE IF tr.round + 1 >= toolRounds
         THEN [tr EXCEPT !.round = 0, !.pc = next]
         ELSE [tr EXCEPT !.round = tr.round + 1]

\* the model answers the retrieval stage in text
RetrieveText(t) ==
    /\ turn[t].pc = "retrieve"
    /\ LET m == Msg("text", turn[t].q, "")
       IN  /\ chats' = [chats EXCEPT ![turn[t].chatId].last = m]
           /\ turn' = [turn EXCEPT ![t].pc = "if", ![t].round = 0, ![t].text = m]
    /\ UNCHANGED <<rows, idxOp, notes, calls, codec, cache, minted, touched, tick, evicted, queries, disclosed, docs>>

\* time.Now() does not run backwards, so that a reading is no earlier than
\* the stamp of any row: the turns of a run read the latest stamp
Nows == {MaxStamp}

\* the write tool (lines 134-157); embedOk and writeOk are the outcomes of
\* Embed and wiki.Write, stamp is the reading of time.Now()
WriteTool(t, path, emb, embedOk, writeOk, stamp, propagate) ==
    /\ turn[t].pc = "retrieve"
    /\ LET c == turn[t].chatId
           err == IF ~embedOk THEN "failed to embed content"
                  ELSE IF ~writeOk THEN "Failed to write page" ELSE ""
           response == PostResponse(Msg("saved", 0, path), {path}, wikiPrefix, EmptyId)
       IN  /\ IF embedOk
              THEN /\ rows' = dbAdd(rows, path, emb, stamp)
                   /\ docs' = IF writeOk THEN docs \cup {path} ELSE docs
              ELSE UNCHANGED <<rows, docs>>
           /\ turn' = [turn EXCEPT ![t] =
                         AfterTool(t, [turn[t] EXCEPT !.tools = @ \cup {"write"}], err,
                                   propagate, "if")]
           /\ chats' = Reachable([chats EXCEPT
                                    ![c].last = Msg("function", turn[t].q, ""),
                                    ![c].response = IF err = "" THEN SetTo(response) ELSE @],
                                 disclosed, turn')
    /\ UNCHANGED <<idxOp, notes, calls, codec, cache, minted, touched, tick, evicted, queries, disclosed>>

\* doSearch (lines 112-129): the paths of db.Search(vector, 5)
doSearch(vector) ==
    {[i \in 1..Len(res) |-> res[i].Path] :
        res \in UNION {dbSearch(rows, order, vector, searchMaxResults) :
                         order \in Orders(DOMAIN rows)}}

\* a search tool that sets the flag once the documents have been read
searchToolFlagAfterRead(flag, pages, embedOk, readOk) ==
    IF embedOk /\ pages # <<>> /\ readOk THEN SetTo(TRUE) ELSE flag

\* doSummarizeVar after the search tool ran on a chat where it was flag:
\* store.Set (line 171) comes after the sentinel return and before the loop
\* of wiki.Read
searchToolFlag(flag, pages, embedOk, readOk) ==
    IF embedOk /\ pages # <<>> THEN SetTo(TRUE) ELSE flag

\* what the search tool returns to the runtime: the sentinel of line 168,
\* the documents read, or an error.  The chat keeps the message of the tool
\* without its text.
NothingFound == "nothing relevant found"

searchToolOutput(pages, embedOk, readOk) ==
    IF ~embedOk THEN [out |-> "", err |-> "failed to vectorize query"]
    ELSE IF pages = <<>> THEN [out |-> NothingFound, err |-> ""]
    ELSE IF ~readOk THEN [out |-> "", err |-> "failed to read page"]
    ELSE [out |-> "relevant document", err |-> ""]

\* the search tool (lines 159-186); readOk is the outcome of the wiki.Read calls
SearchTool(t, vector, embedOk, readOk, propagate) ==
    /\ turn[t].pc = "retrieve"
    /\ LET c == turn[t].chatId
       IN  \E pages \in IF embedOk THEN doSearch(vector) ELSE {<<>>} :
             LET err == searchToolOutput(pages, embedOk, readOk).err
             IN  /\ turn' = [turn EXCEPT ![t] =
                               AfterTool(t, [turn[t] EXCEPT !.tools = @ \cup {"search"}], err,
                                         propagate, "if")]
                 /\ chats' = Reachable([chats EXCEPT
                                          ![c].last = Msg("function", turn[t].q, ""),
                                          ![c].doSummarize =
                                              searchToolFlag(@, pages, embedOk, readOk)],
                                       disclosed, turn')
    /\ UNCHANGED <<rows, idxOp, notes, calls, codec, cache, minted, touched, tick, evicted, queries, disclosed, docs>>

\* a condition that holds whatever the chat store says
doSummarizeSetAlways(chat) == TRUE

\* the condition of lingograph.If: ok && doSummarize
doSummarizeSet(chat) == chat.doSummarize.ok /\ chat.doSummarize.val

\* lingograph.If on doSummarizeVar (lines 247-254)
IfSummarize(t) ==
    /\ turn[t].pc = "if"
    /\ turn' = [turn EXCEPT ![t] =
                  IF doSummarizeSet(ChatOf(t))
                  THEN [@ EXCEPT !.pc = "summarize", !.round = 0, !.stage2 = TRUE]
                  ELSE [@ EXCEPT !.pc = "finalize", !.executed = TRUE]]
    /\ UNCHANGED <<rows, idxOp, notes, calls, codec, storeVars, queries, disclosed, docs>>

\* the model answers the summarization stage in text
SummarizeText(t) ==
    /\ turn[t].pc = "summarize"
    /\ LET m == Msg("text", turn[t].q, "")
       IN  /\ chats' = [chats EXCEPT ![turn[t].chatId].last = m]
           /\ turn' = [turn EXCEPT ![t].pc = "finalize", ![t].round = 0, ![t].text = m,
                                    ![t].executed = TRUE]
    /\ UNCHANGED <<rows, idxOp, notes, calls, codec, cache, minted, touched, tick, evicted, queries, disclosed, docs>>

\* a response that lists every id of the summary
summaryResponseAll(text, relevant, irrelevant) ==
    PostResponse(text, relevant \cup irrelevant, wikiPrefix, EmptyId)

\* the response built by the summarize tool (lines 201-205) from a Summary
summaryResponse(text, relevant, irrelevant) ==
    PostResponse(text, relevant, wikiPrefix, EmptyId)

\* the summarize tool (lines 200-209) called with Summary{Text, Relevant,
\* Irrelevant}; the text is the summary of the turn's question
SummarizeTool(t, relevant, irrelevant) ==
    /\ turn[t].pc = "summarize"
    /\ LET c == turn[t].chatId
           response == summaryResponse(Msg("summary", turn[t].q, ""), relevant, irrelevant)
           tr == AfterTool(t, [turn[t] EXCEPT !.summarized = TRUE], "", FALSE, "finalize")
       IN  /\ chats' = [chats EXCEPT ![c].last = Msg("function", turn[t].q, ""),
                                     ![c].response = SetTo(response)]
           /\ turn' = [turn EXCEPT ![t] = [tr EXCEPT !.executed = (tr.pc = "finalize")]]
    /\ UNCHANGED <<rows, idxOp, notes, calls, codec, cache, minted, touched, tick, evicted, queries, disclosed, docs>>

queryResultNoFlagCheck(chat, chatId) ==
    IF chat.last = NoMsg THEN ErrResult("no messages")
    ELSE IF chat.response.ok THEN OkResult(chat.response.val)
    ELSE OkResult(PostResponse(chat.last, {}, "", chatId))

\* lines 262-281 of Query
queryResult(chat, chatId) ==
    IF chat.last = NoMsg THEN ErrResult("no messages")
    ELSE IF chat.response.ok THEN OkResult(chat.response.val)
    ELSE IF doSummarizeSet(chat) THEN ErrResult("internal error: no response")
    ELSE OkResult(PostResponse(chat.last, {}, "", chatId))

Finalize(t) ==
    /\ turn[t].pc = "finalize"
    /\ LET result == queryResult(ChatOf(t), turn[t].chatId)
       IN  /\ turn' = [turn EXCEPT ![t].pc = "done", ![t].result = result]
           /\ disclosed' = IF result.kind = "ok" /\ result.resp.ChatID # EmptyId
                           THEN disclosed \cup {result.resp.ChatID}
                           ELSE disclosed
           /\ chats' = Reachable(chats, disclosed', turn')
    /\ UNCHANGED <<rows, idxOp, notes, calls, codec, cache, minted, touched, tick, evicted, queries, docs>>

Step(t) ==
    \/ \E key \in {EmptyId, UnknownId} \cup 1..MaxQueries : QueryGet(t, key)
    \/ QueryAdd(t)
    \/ UserPrompt(t)
    \/ ModelFails(t)
    \/ RetrieveText(t)
    \/ \E path \in Paths, emb \in EmbedVecs, embedOk, writeOk, propagate \in BOOLEAN,
          stamp \in Nows : WriteTool(t, path, emb, embedOk, writeOk, stamp, propagate)
    \/ \E vector \in EmbedVecs, embedOk, readOk, propagate \in BOOLEAN :
          SearchTool(t, vector, embedOk, readOk, propagate)
    \/ IfSummarize(t)
    \/ SummarizeText(t)
    \/ \E relevant, irrelevant \in SUBSET Paths : SummarizeTool(t, relevant, irrelevant)
    \/ Finalize(t)

\* requests handled concurrently, one goroutine per request
Next == \E t \in Turns : Step(t)

Spec == Init /\ [][Next]_vars

SpecCodec == Init /\ [][NextCodec]_vars

\* recentChats alone: chats are created and looked up as Query does it, with
\* no turn in between
StoreGet(key) ==
    /\ key \in {EmptyId, UnknownId} \cup 1..minted
    /\ recentChatsGet(key).ok => tick - minted < MaxHits
    /\ StoreGetEffect(key)
    /\ UNCHANGED <<rows, idxOp, notes, calls, codec, backVars>>

StoreAdd ==
    /\ minted < MaxMints
    /\ StoreAddEffect
    /\ UNCHANGED <<rows, idxOp, notes, calls, codec, backVars>>

NextStore ==
    \/ \E key \in {EmptyId, UnknownId} \cup 1..MaxMints : StoreGet(key)
    \/ StoreAdd

SpecStore == Init /\ [][NextStore]_vars

\* one client that waits for each answer before it sends the next message
SpecSerial == Init /\ [][Step(1)]_vars

\* the steps of a Query that has been called: each is a call of the model, of
\* a tool and its collaborators, or code of Query itself
TurnStep(t) ==
    \/ QueryAdd(t)
    \/ UserPrompt(t)
    \/ ModelFails(t)
    \/ RetrieveText(t)
    \/ \E path \in Paths, emb \in EmbedVecs, embedOk, writeOk, propagate \in BOOLEAN,
          stamp \in Nows : WriteTool(t, path, emb, embedOk, writeOk, stamp, propagate)
    \/ \E vector \in EmbedVecs, embedOk, readOk, propagate \in BOOLEAN :
          SearchTool(t, vector, embedOk, readOk, propagate)
    \/ IfSummarize(t)
    \/ SummarizeText(t)
    \/ \E relevant, irrelevant \in SUBSET Paths : SummarizeTool(t, relevant, irrelevant)
    \/ Finalize(t)

\* one client whose calls to the model, the embedder and the wiki all return:
\* a Query that has been called takes its next step
SpecLive == Init /\ [][Step(1)]_vars /\ WF_vars(TurnStep(1))

\* The runtime ends a stage and has written no message to the chat: the
\* pipeline returns nil and the chain goes on (lines 246-257).  The actor of
\* lingograph is not among the sources; whether it can do so is left open,
\* and the other specifications leave this step out.
StageSilent(t) ==
    /\ turn[t].pc \in {"retrieve", "summarize"}
    /\ turn[t].round = 0
    /\ turn' = [turn EXCEPT ![t] =
                  IF turn[t].pc = "retrieve"
                  THEN [@ EXCEPT !.pc = "if"]
                  ELSE [@ EXCEPT !.pc = "finalize", !.executed = TRUE]]
    /\ UNCHANGED <<rows, idxOp, notes, calls, codec, storeVars, queries, disclosed, docs>>

\* one client and a runtime that may stay silent
NextSilent == Step(1) \/ StageSilent(1)

SpecSilent == Init /\ [][NextSilent]_vars

\* a short run of the concurrent handlers
NextPair == Next /\ queries' <= MaxPairQueries

SpecPair == Init /\ [][NextPair]_vars

\* a request of another client that carries no chat id has run lines 236-241
\* of Query and waits for the model; its chat is out of this client's reach
OtherQueryAdd ==
    /\ minted < MaxMints
    /\ CacheAddEffect
    /\ UNCHANGED <<rows, idxOp, notes, calls, codec, chats, backVars>>

\* one client, while requests of other clients arrive
NextCrowd == (Step(1) /\ queries' <= MaxCrowdQueries) \/ OtherQueryAdd

SpecCrowd == Init /\ [][NextCrowd]_vars

-----------------------------------------------------------------------------
(* The index as a state machine *)

NoRow == Row(NilVec, 0)

Op(op, id, emb, stamp, had, old, k, res) ==
    [op |-> op, id |-> id, emb |-> emb, stamp |-> stamp, had |-> had, old |-> old,
     k |-> k, res |-> res]

NoOp == Op("none", "", NilVec, 0, FALSE, NoRow, 0, <<>>)

\* search.NewDB
InitIndex ==
    /\ rows = << >>
    /\ idxOp = NoOp
    /\ InitCodec
    /\ InitStore
    /\ InitBack

IndexAdd(id, emb, stamp) ==
    /\ rows' = dbAdd(rows, id, emb, stamp)
    /\ idxOp' = Op("Add", id, emb, stamp, id \in DOMAIN rows,
                   IF id \in DOMAIN rows THEN rows[id] ELSE NoRow, 0, <<>>)
    /\ UNCHANGED notIdx

IndexNumRows ==
    /\ idxOp' = Op("NumRows", "", NilVec, 0, FALSE, NoRow, dbNumRows(rows), <<>>)
    /\ UNCHANGED <<rows, notIdx>>

IndexDocStamp(id) ==
    /\ idxOp' = Op("DocStamp", id, NilVec, dbDocStamp(rows, id).stamp,
                   dbDocStamp(rows, id).ok, NoRow, 0, <<>>)
    /\ UNCHANGED <<rows, notIdx>>

\* db.Search: it returns a result and a nil error, or panics midway
IndexSearch(query, k) ==
    /\ IF searchPanics(rows, query)
       THEN idxOp' = Op("SearchPanic", "", query, 0, FALSE, NoRow, k, <<>>)
       ELSE \E order \in Orders(DOMAIN rows) :
              \E res \in dbSearch(rows, order, query, k) :
                 idxOp' = Op("Search", "", query, 0, FALSE, NoRow, k, res)
    /\ UNCHANGED <<rows, notIdx>>

NextIndex ==
    \/ \E id \in Ids, emb \in Vecs, stamp \in Stamps : IndexAdd(id, emb, stamp)
    \/ IndexNumRows
    \/ \E id \in Ids : IndexDocStamp(id)
    \/ \E query \in QueryVecs, k \in Ks : IndexSearch(query, k)

SpecIndex == InitIndex /\ [][NextIndex]_vars

-----------------------------------------------------------------------------
(* loadEmbeddings: the index is rebuilt from the persistence log.  The log   *)
(* is drawn at the start; git hands the notes to the callback in an order of *)
(* its own, one note at a time.                                              *)

MaxNotes == 3

LoadVecs == {Vec(<<1, 0>>), Vec(<<1, 1>>)}

\* what json.Unmarshal leaves in emb: the record of the note, or the zero
\* Embedding when the note does not decode
Note(id, vector, stamp) == [ID |-> id, Vector |-> vector, Stamp |-> stamp]

CorruptNote == Note("", NilVec, 0)

NoteRecs == {Note(id, v, stamp) : id \in Ids, v \in LoadVecs, stamp \in Stamps} \cup {CorruptNote}

InitLoad ==
    /\ rows = << >>
    /\ idxOp = NoOp
    /\ InitCodec
    /\ InitStore
    /\ turn = [t \in Turns |-> Idle]
    /\ queries = 0
    /\ disclosed = {}
    /\ docs = {}
    /\ calls = NoCalls
    /\ \E recs \in SeqsUpTo(NoteRecs, MaxNotes) : notes = [recs |-> recs, visited |-> {}]

\* the callback of loadEmbeddings on the i-th note (lines 396-402)
LoadNote(i) ==
    /\ i \in (1..Len(notes.recs)) \ notes.visited
    /\ LET emb == notes.recs[i]
       IN  rows' = dbAdd(rows, emb.ID, emb.Vector, emb.Stamp)
    /\ notes' = [notes EXCEPT !.visited = @ \cup {i}]
    /\ UNCHANGED <<idxOp, codec, storeVars, backVars, calls>>

NextLoad == \E i \in 1..MaxNotes : LoadNote(i)

SpecLoad == InitLoad /\ [][NextLoad]_vars

\* GetNoteContents has returned
Loaded == notes.visited = 1..Len(notes.recs)

\* the index after Add was applied to recs in the order of the sequence
RECURSIVE AddAll(_, _)
AddAll(rs, recs) ==
    IF recs = <<>> THEN rs
    ELSE AddAll(dbAdd(rs, Head(recs).ID, Head(recs).Vector, Head(recs).Stamp), Tail(recs))

-----------------------------------------------------------------------------
(* indexHandler: a request names pages, one per line; each is read, embedded *)
(* and handed to index, which commits the page and appends its embedding to  *)
(* the git notes.  The request is kept in calls[1]: got holds the paths not  *)
(* yet handled, res the paths indexed, rows0 the index and k the number of   *)
(* notes when the request arrived.  The process may be restarted between     *)
(* requests, and then loads the notes.                                       *)

MaxBody == 2        \* paths in the body of an index request

\* an index that adds the page to the running index as well
indexRowsAdd(rs, path, vector, stamp) == dbAdd(rs, path, vector, stamp)

\* db.rows after index(ctx, path, content, vector): index (lines 429-462) has
\* no call of db.Add
indexRows(rs, path, vector, stamp) == rs

\* lines 622-627 of indexHandler
IndexRequest(body) ==
    /\ calls[1].pc \in {"idle", "returned", "failed"}
    /\ Len(notes.recs) + Len(body) <= MaxNotes
    /\ calls' = [calls EXCEPT ![1] =
                    [NoCall EXCEPT !.op = "Index", !.pc = "loop", !.got = body, !.rows0 = rows,
                                   !.k = Len(notes.recs)]]
    /\ UNCHANGED <<rows, idxOp, codec, storeVars, backVars, notes>>

\* validateAndIndex on the next path (lines 581-608) with index (lines
\* 429-462): ok tells whether the path is valid, the page was read and
\* embedded and git added, committed and took the note
IndexOne(ok, vector, stamp) ==
    /\ calls[1].op = "Index" /\ calls[1].pc = "loop"
    /\ calls[1].got # <<>>
    /\ LET path == Head(calls[1].got)
       IN  IF ok
           THEN /\ notes' = [notes EXCEPT !.recs = Append(@, Note(path, vector, stamp))]
                /\ rows' = indexRows(rows, path, vector, stamp)
                /\ calls' = [calls EXCEPT ![1].got = Tail(@), ![1].res = Append(@, path)]
           ELSE /\ calls' = [calls EXCEPT ![1].pc = "failed"]
                /\ UNCHANGED <<rows, notes>>
    /\ UNCHANGED <<idxOp, codec, storeVars, backVars>>

\* the loop of indexHandler is through
IndexDone ==
    /\ calls[1].op = "Index" /\ calls[1].pc = "loop"
    /\ calls[1].got = <<>>
    /\ calls' = [calls EXCEPT ![1].pc = "returned"]
    /\ UNCHANGED <<rows, idxOp, codec, storeVars, backVars, notes>>

\* the process starts anew: search.NewDB and loadEmbeddings over the notes
Restart ==
    /\ calls[1].pc \in {"returned", "failed"}
    /\ rows' = AddAll(<< >>, notes.recs)
    /\ calls' = NoCalls
    /\ UNCHANGED <<idxOp, codec, storeVars, backVars, notes>>

NextEndpoint ==
    \/ \E body \in SeqsUpTo(Ids, MaxBody) : IndexRequest(body)
    \/ \E ok \in BOOLEAN, vector \in LoadVecs, stamp \in Stamps : IndexOne(ok, vector, stamp)
    \/ IndexDone
    \/ Restart

SpecEndpoint == Init /\ [][NextEndpoint]_vars

-----------------------------------------------------------------------------
(* The index called by goroutines that run at the same time: the tool        *)
(* handlers of concurrent turns call Add and Search on the one db, which     *)
(* holds no lock.  Add is its reads (lines 63-67) and its map assignment     *)
(* (line 69), which takes time: it begins and it ends.  Search is one step   *)
(* per iteration of its range loop.  A read of the map made while an         *)
(* assignment is under way is a data race: the Go runtime may stop the       *)
(* process ("concurrent map read and map write"), or the read goes through    *)
(* and is handed the row as it was, the row as it will be, or a mix of both.  *)

RaceVecs == {Vec(<<1, 0>>), Vec(<<1, 1>>)}
RaceKs == {1, 2}

InitRace ==
    /\ \E S \in SUBSET Ids : \E f \in [S -> RaceVecs] : rows = [id \in S |-> Row(f[id], 0)]
    /\ idxOp = NoOp
    /\ InitCodec
    /\ InitStore
    /\ InitBack

Fatal == \E g \in Callers : calls[g].pc = "fatal"

\* the goroutines other than g whose map assignment is under way
Writers(g) == {u \in Callers \ {g} : calls[u].pc = "writing"}

\* what a read of db.rows[id] by g can be handed: found tells whether the key
\* is there, row is its value
Reads(g, id) ==
    LET here == IF id \in DOMAIN rows
                THEN {[found |-> TRUE, row |-> rows[id]]}
                ELSE {[found |-> FALSE, row |-> NoRow]}
        old == IF id \in DOMAIN rows THEN rows[id] ELSE NoRow
        torn == {[found |-> TRUE, row |-> Row(v, st)] :
                   v \in {old.vector} \cup {calls[u].emb : u \in {w \in Writers(g) : calls[w].id = id}},
                   st \in {old.stamp} \cup {calls[u].stamp : u \in {w \in Writers(g) : calls[w].id = id}}}
    IN  IF \E u \in Writers(g) : calls[u].id = id THEN here \cup torn ELSE here

\* the runtime has found a map access of g to overlap a map assignment
RaceFatal(g) ==
    /\ ~Fatal
    /\ calls[g].pc \in {"check", "assign", "loop"}
    /\ Writers(g) # {}
    /\ calls' = [calls EXCEPT ![g].pc = "fatal"]
    /\ UNCHANGED <<rows, idxOp, codec, storeVars, backVars, notes>>

RaceAdd(g, id, emb, stamp) ==
    /\ ~Fatal
    /\ calls[g].op = "none"
    /\ calls' = [calls EXCEPT ![g] =
                    [NoCall EXCEPT !.op = "Add", !.pc = "check", !.id = id, !.emb = emb,
                                   !.stamp = stamp]]
    /\ UNCHANGED <<rows, idxOp, codec, storeVars, backVars, notes>>

\* lines 63-67 of db.Add
RaceAddCheck(g) ==
    /\ ~Fatal
    /\ calls[g].pc = "check"
    /\ \E r \in Reads(g, calls[g].id) :
          calls' = [calls EXCEPT ![g].pc =
                      IF r.found /\ After(r.row.stamp, calls[g].stamp) THEN "returned"
                      ELSE "assign"]
    /\ UNCHANGED <<rows, idxOp, codec, storeVars, backVars, notes>>

\* line 69 of db.Add: the assignment begins
RaceAddBegin(g) ==
    /\ ~Fatal
    /\ calls[g].pc = "assign"
    /\ calls' = [calls EXCEPT ![g].pc = "writing"]
    /\ UNCHANGED <<rows, idxOp, codec, storeVars, backVars, notes>>

\* line 69 of db.Add: the assignment is done and Add returns
RaceAddEnd(g) ==
    /\ ~Fatal
    /\ calls[g].pc = "writing"
    /\ rows' = assign(rows, calls[g].id, calls[g].emb, calls[g].stamp)
    /\ calls' = [calls EXCEPT ![g].pc = "returned"]
    /\ UNCHANGED <<idxOp, codec, storeVars, backVars, notes>>

\* lines 121-123 of db.Search
RaceSearch(g, query, k) ==
    /\ ~Fatal
    /\ calls[g].op = "none"
    /\ calls' = [calls EXCEPT ![g] =
                    [NoCall EXCEPT !.op = "Search", !.pc = "loop", !.emb = query, !.k = k,
                                   !.rows0 = rows]]
    /\ UNCHANGED <<rows, idxOp, codec, storeVars, backVars, notes>>

\* one iteration of the loop of db.Search (lines 126-137); a key whose
\* assignment is under way may already be handed out
RaceSearchNext(g) ==
    /\ ~Fatal
    /\ calls[g].pc = "loop"
    /\ \E id \in (DOMAIN rows \cup {calls[u].id : u \in Writers(g)}) \ calls[g].visited :
         \E r \in {x \in Reads(g, id) : x.found} :
            calls' = [calls EXCEPT
                        ![g].visited = @ \cup {id},
                        ![g].got = Append(@, [id |-> id, row |-> r.row]),
                        ![g].h = IF r.row.vector.nil
                                 THEN @
                                 ELSE brAdd(@, calls[g].k,
                                            Result(id, cosineDistance(calls[g].emb, r.row.vector)))]
    /\ UNCHANGED <<rows, idxOp, codec, storeVars, backVars, notes>>

\* the loop ends and Search returns (line 139); a key created while the loop
\* ran may have been skipped
RaceSearchEnd(g) ==
    /\ ~Fatal
    /\ calls[g].pc = "loop"
    /\ (DOMAIN rows \cap DOMAIN calls[g].rows0) \subseteq calls[g].visited
    /\ \E res \in brGet(calls[g].h) :
          calls' = [calls EXCEPT ![g].pc = "returned", ![g].res = res]
    /\ UNCHANGED <<rows, idxOp, codec, storeVars, backVars, notes>>

RaceStep(g) ==
    \/ \E id \in Ids, emb \in RaceVecs, stamp \in Stamps : RaceAdd(g, id, emb, stamp)
    \/ RaceAddCheck(g)
    \/ RaceAddBegin(g)
    \/ RaceAddEnd(g)
    \/ \E query \in RaceVecs, k \in RaceKs : RaceSearch(g, query, k)
    \/ RaceSearchNext(g)
    \/ RaceSearchEnd(g)
    \/ RaceFatal(g)

NextRace == \E g \in Callers : RaceStep(g)

SpecRace == InitRace /\ [][NextRace]_vars

-----------------------------------------------------------------------------
(* db.Search as a function of the index contents, the query, maxResults and  *)
(* the order in which the range over db.rows visits the rows.  The index     *)
(* contents are drawn from the maps that Add can build over SearchIds; one   *)
(* search is applied to each.                                                *)

InitSearch ==
    /\ \E S \in SUBSET SearchIds : \E f \in [S -> Vecs] :
          rows = [id \in S |-> Row(f[id], 0)]
    /\ idxOp = NoOp
    /\ InitCodec
    /\ InitStore
    /\ InitBack

NextSearch == idxOp.op = "none" /\ \E query \in QueryVecs, k \in Ks : IndexSearch(query, k)

SpecSearch == InitSearch /\ [][NextSearch]_vars

-----------------------------------------------------------------------------
(* Properties of the index *)

Searchable(rs) == {id \in DOMAIN rs : ~rs[id].vector.nil}

ResultPaths(res) == {res[i].Path : i \in 1..Len(res)}

\* C2: with N searchable rows and 0 <= k <= N, Search returns exactly k
\* results, one per id, each a searchable row with its distance to the query,
\* in ascending distance order, and no row left out is nearer than a row
\* returned; a row identical to the query comes first, at distance 0.
C2_TopK ==
    (idxOp.op = "Search" /\ idxOp.k >= 0 /\ idxOp.k <= Cardinality(Searchable(rows))) =>
        LET res == idxOp.res
            dist(id) == cosineDistance(idxOp.emb, rows[id].vector)
        IN  /\ Len(res) = idxOp.k
            /\ Cardinality(ResultPaths(res)) = Len(res)
            /\ \A i \in 1..Len(res) :
                  /\ res[i].Path \in Searchable(rows)
                  /\ res[i].Distance = dist(res[i].Path)
            /\ \A i, j \in 1..Len(res) : i < j => ~DistLess(res[j].Distance, res[i].Distance)
            /\ \A id \in Searchable(rows) \ ResultPaths(res) :
                  \A i \in 1..Len(res) : ~DistLess(dist(id), res[i].Distance)
            /\ \A id \in Searchable(rows) :
                  (rows[id].vector = idxOp.emb /\ idxOp.k >= 1) =>
                      /\ DistIsZero(res[1].Distance)
                      /\ (\A o \in Searchable(rows) \ {id} : ~DistIsZero(dist(o)))
                            => res[1].Path = id

\* a search for 3 of 4 searchable rows, two of them at equal distance, has
\* dropped the farthest row
C2_Witness ==
    /\ idxOp.op = "Search" /\ idxOp.k = 3
    /\ Cardinality(Searchable(rows)) = 4
    /\ Len(idxOp.res) = 3
    /\ DistEq(idxOp.res[1].Distance, idxOp.res[2].Distance)
    /\ DistLess(idxOp.res[2].Distance, idxOp.res[3].Distance)
    /\ \E id \in Searchable(rows) \ ResultPaths(idxOp.res) :
          DistLess(idxOp.res[3].Distance, cosineDistance(idxOp.emb, rows[id].vector))

\* C11 as stated: once every record of the log has been applied, in whatever
\* order, the index is the one that any other order of application yields.
C11_OrderIndependenceAsStated ==
    (Len(notes.recs) > 0 /\ Loaded) =>
        \A order \in Orders(1..Len(notes.recs)) :
            rows = AddAll(<< >>, [i \in 1..Len(notes.recs) |-> notes.recs[order[i]]])

\* no two records for the same id carry the same timestamp and different vectors
NoTies(recs) ==
    \A i, j \in 1..Len(recs) :
        (recs[i].ID = recs[j].ID /\ recs[i].Stamp = recs[j].Stamp) =>
            recs[i].Vector = recs[j].Vector

\* C11 amended: for a log in which no two records for the same id carry the
\* same timestamp and different vectors, once every record has been applied,
\* in whatever order, the index is the one that any other order yields.
C11_OrderIndependence ==
    (Len(notes.recs) > 0 /\ Loaded /\ NoTies(notes.recs)) =>
        \A order \in Orders(1..Len(notes.recs)) :
            rows = AddAll(<< >>, [i \in 1..Len(notes.recs) |-> notes.recs[order[i]]])

\* a log that holds an older record after a newer one for the same id, with
\* another vector, has been loaded and the row is the newer record
C11_Witness ==
    /\ Loaded /\ NoTies(notes.recs)
    /\ \E i, j \in 1..Len(notes.recs) :
          /\ i < j
          /\ notes.recs[i].ID = notes.recs[j].ID
          /\ notes.recs[i].Stamp > notes.recs[j].Stamp
          /\ notes.recs[i].Vector # notes.recs[j].Vector
          /\ rows[notes.recs[i].ID] = Row(notes.recs[i].Vector, notes.recs[i].Stamp)

\* C12: a call of Add(id, _, t) leaves a row for id whose timestamp is the
\* greater of t and the timestamp the row had, and leaves every other row as
\* it was; Search, NumRows and DocStamp leave the rows as they were; so no row
\* is ever removed, no timestamp ever decreases, and the timestamp of a row is
\* the greatest timestamp of the Add calls made for its id.
C12_LatestTimestamp ==
    [][/\ \A id \in DOMAIN rows : id \in DOMAIN rows' /\ rows'[id].stamp >= rows[id].stamp
       /\ IF idxOp'.op = "Add"
          THEN LET id == idxOp'.id
               IN  /\ id \in DOMAIN rows'
                   /\ rows'[id].stamp = IF id \in DOMAIN rows /\ rows[id].stamp > idxOp'.stamp
                                        THEN rows[id].stamp
                                        ELSE idxOp'.stamp
                   /\ \A o \in DOMAIN rows' \ {id} : o \in DOMAIN rows /\ rows'[o] = rows[o]
          ELSE rows' = rows]_vars

\* an Add with a timestamp older than the row's has left the row as it was,
\* next to a row for another id
C12_Witness ==
    /\ idxOp.op = "Add" /\ idxOp.had
    /\ idxOp.stamp < idxOp.old.stamp
    /\ rows[idxOp.id] = idxOp.old
    /\ DOMAIN rows = Ids

\* the complete rows that the index held for id since the Search of g began,
\* or that an Add of another goroutine assigns
CompleteRows(g, id) ==
    {calls[g].rows0[x] : x \in {id} \cap DOMAIN calls[g].rows0}
        \cup {rows[x] : x \in {id} \cap DOMAIN rows}
        \cup {Row(calls[u].emb, calls[u].stamp) :
                 u \in {w \in Callers \ {g} : calls[w].op = "Add" /\ calls[w].id = id}}

\* C14: while a Search is in its loop no map assignment of an Add is under
\* way, the runtime never stops the process for a concurrent map access, and
\* every row a Search was handed is a complete row: the one before an Add or
\* the one after it.
C14_AtomicVisibility ==
    /\ ~Fatal
    /\ \A g \in Callers : calls[g].pc = "loop" => Writers(g) = {}
    /\ \A g \in Callers :
          calls[g].op = "Search" =>
              \A i \in 1..Len(calls[g].got) :
                  calls[g].got[i].row \in CompleteRows(g, calls[g].got[i].id)

-----------------------------------------------------------------------------
(* Properties of the codec *)

\* C7: unmarshalling what MarshalJSON produced for an Embedding succeeds and
\* yields the same id and a vector of the same length with the same bit
\* patterns, NaN and infinities and the empty vector included.
C7_RoundTrip ==
    (codec.op = "Unmarshal" /\ codec.intact) =>
        /\ codec.err = "nil"
        /\ codec.dst.ID = codec.src.ID
        /\ Len(codec.dst.Vector.e) = Len(codec.src.Vector.e)
        /\ \A i \in 1..Len(codec.src.Vector.e) : codec.dst.Vector.e[i] = codec.src.Vector.e[i]

\* an Embedding with an id that needs quoting and a vector holding a NaN and
\* a number with distinct bytes has been marshalled and unmarshalled
C7_Witness ==
    /\ codec.op = "Unmarshal" /\ codec.intact
    /\ codec.src.ID = <<"n", "\"">>
    /\ codec.src.Vector.e = <<<<32760, 0, 0, 1>>, <<16313, 39321, 39321, 39322>>>>
    /\ codec.dst.Vector.e = codec.src.Vector.e
    /\ Len(codec.wire.vector) = 24

\* C8: unmarshalling a JSON record whose vector is not valid base64, or whose
\* decoded blob has a length that is not a multiple of 8, fails and leaves the
\* destination Embedding as it was.
C8_DecodeAllOrNothing ==
    (codec.op = "Unmarshal" /\ codec.wire.json
        /\ (~DecodeString(codec.wire.vector).ok
            \/ Len(DecodeString(codec.wire.vector).bytes) % 8 # 0)) =>
        /\ codec.err # "nil"
        /\ codec.dst = codec.prev

-----------------------------------------------------------------------------
(* Properties of the backend *)

Returned(t) == turn[t].pc = "done"

\* C3: every Query that succeeds returns the id of the chat it ran on, whether
\* the response came from the write tool, the summarize tool or the text
\* fallback.
C3_ReturnsSessionId ==
    \A t \in Turns :
        (Returned(t) /\ turn[t].result.kind = "ok") =>
            turn[t].result.resp.ChatID = turn[t].chatId

\* C4: a turn enters the summarization stage only if its own retrieval stage
\* called the search tool.
C4_PipelineSkip ==
    \A t \in Turns : turn[t].stage2 => "search" \in turn[t].tools

\* C5: a step of the store removes a key only when a new key is added to a
\* full cache, and then it removes exactly one key, the one touched longest ago.
C5_LRUEviction ==
    [][LET gone == Elems(cache) \ Elems(cache')
           new == Elems(cache') \ Elems(cache)
       IN  IF new # {} /\ Len(cache) = recentChatsLimit
           THEN \E k \in Elems(cache) :
                   /\ gone = {k}
                   /\ \A j \in Elems(cache) : touched[k] <= touched[j]
           ELSE gone = {}]_vars

\* the first chat was looked up again before the cache overflowed, so the
\* second chat was evicted and the first is still cached
C5_Witness ==
    /\ Len(evicted) >= 1
    /\ evicted[1] = 2
    /\ 1 \in Elems(cache)
    /\ Len(cache) = recentChatsLimit

InFlight(t) == turn[t].pc \in {"prompt", "retrieve", "if", "summarize", "finalize"}

\* C6: no two Query calls are between resolving the chat and finishing the
\* pipeline on the same chat at the same time.
C6_OneTurnPerSession ==
    \A t, u \in Turns :
        (t # u /\ InFlight(t) /\ InFlight(u)) => turn[t].chatId # turn[u].chatId

\* C13: when a Query returns, with a response or with an error, the cache of
\* recent chats holds the chat it ran on.
C13_TranscriptRetention ==
    [][\A t \in Turns :
          (turn[t].pc # "done" /\ turn'[t].pc = "done") =>
              turn'[t].chatId \in Elems(cache')]_vars

\* the response the write tool stores for path (lines 148-152)
savedResponse(path) == PostResponse(Msg("saved", 0, path), {path}, wikiPrefix, EmptyId)

\* C15: after a call of the write tool in which Embed and wiki.Write
\* succeeded, the index holds a row for the path with the embedding and the
\* time read, DocStamp finds it, every Search with room for it returns the
\* path, the page is stored, and the response in the chat's store is the
\* saved message with the path as its only reference.
C15_WriteEffect ==
    [][\A t \in Turns, path \in Paths, emb \in EmbedVecs, stamp \in Nows, propagate \in BOOLEAN :
          WriteTool(t, path, emb, TRUE, TRUE, stamp, propagate) =>
              /\ dbDocStamp(rows', path) = [stamp |-> stamp, ok |-> TRUE]
              /\ rows'[path].vector = emb
              /\ \A order \in Orders(DOMAIN rows') :
                    \A res \in dbSearch(rows', order, emb, searchMaxResults) :
                        path \in ResultPaths(res)
              /\ path \in docs'
              /\ chats'[turn[t].chatId].response = SetTo(savedResponse(path))]_vars

\* a turn is under way in which the write tool has stored a page, its row
\* and the saved response
C15_Witness ==
    \E t \in Turns, path \in Paths :
        /\ Running(turn[t]) /\ "write" \in turn[t].tools
        /\ ChatOf(t).response = SetTo(savedResponse(path))
        /\ path \in DOMAIN rows /\ path \in docs

\* the ids a caller can pass to Query
CallerIds == {EmptyId, UnknownId} \cup disclosed

\* C16: a Query called with the empty id or an id that the cache does not
\* hold creates no entry when it looks the id up and then adds exactly one
\* entry, an empty chat under an id that was never minted before and that no
\* caller can have passed; no two Query calls run on the same minted chat
\* unless one of them was passed its id.  A Query called with an id that the
\* cache holds adds no entry and runs on the chat of that id.
C16_SessionMinting ==
    [][\A t \in Turns :
          /\ \A key \in CallerIds :
                QueryGet(t, key) =>
                    /\ minted' = minted /\ Elems(cache') = Elems(cache)
                    /\ IF key # EmptyId /\ key \in Elems(cache)
                       THEN turn'[t].pc = "prompt" /\ turn'[t].chatId = key
                       ELSE turn'[t].pc = "add"
          /\ QueryAdd(t) =>
                LET id == turn'[t].chatId
                IN  /\ id \notin 1..minted /\ id \notin CallerIds
                    /\ minted' = minted + 1
                    /\ Elems(cache') \ Elems(cache) = {id}
                    /\ chats'[id] = NewChat
                    /\ \A u \in Turns \ {t} : Running(turn'[u]) => turn'[u].chatId # id]_vars

\* two Query calls that were passed no id run at the same time, each on a
\* chat of its own, and both chats are cached
C16_Witness ==
    /\ Running(turn[1]) /\ Running(turn[2])
    /\ turn[1].chatId # turn[2].chatId
    /\ disclosed = {}
    /\ {turn[1].chatId, turn[2].chatId} \subseteq Elems(cache)

\* C17: whatever Query calls have run or are running, recentChats holds at
\* most recentChatsLimit chats, each under one key
C17_CapacityBound ==
    /\ Len(cache) <= recentChatsLimit
    /\ Cardinality(Elems(cache)) = Len(cache)

\* the cache is full and an add has pushed a chat out of it
C17_Witness ==
    /\ Len(cache) = recentChatsLimit
    /\ evicted # <<>>
    /\ minted > recentChatsLimit

\* a row that holds no embedding: its vector is nil or has no elements
Placeholder(r) == r.vector.nil \/ Len(r.vector.e) = 0

\* the ids of the rows that hold an embedding
Embedded(rs) == {id \in DOMAIN rs : ~Placeholder(rs[id])}

\* the length of the list that a search for k results over n rows is to return
ResultSize(k, n) == IF k <= 0 THEN 0 ELSE IF k < n THEN k ELSE n

\* C18: whatever the index holds, a Search call returns, and the list it
\* returns has min(k, number of rows that hold an embedding) results, none
\* when k <= 0 or when the index is empty
C18_ResultSize ==
    idxOp.op \in {"Search", "SearchPanic"} =>
        /\ idxOp.op = "Search"
        /\ Len(idxOp.res) = ResultSize(idxOp.k, Cardinality(Embedded(rows)))

\* C19: a Search call over an index that holds a row without an embedding
\* returns, no result it returns is such a row, such rows take no place in
\* the list, and NumRows counts them
C19_PlaceholderRows ==
    (idxOp.op \in {"Search", "SearchPanic"} /\ \E id \in DOMAIN rows : Placeholder(rows[id])) =>
        /\ idxOp.op = "Search"
        /\ \A i \in 1..Len(idxOp.res) : idxOp.res[i].Path \in Embedded(rows)
        /\ Len(idxOp.res) = ResultSize(idxOp.k, Cardinality(Embedded(rows)))
        /\ dbNumRows(rows) = Cardinality(Embedded(rows))
                                + Cardinality({id \in DOMAIN rows : Placeholder(rows[id])})

\* the moves of a handler from one position of Query to the next
StageMoves ==
    {<<"idle", "prompt">>, <<"idle", "add">>, <<"done", "prompt">>, <<"done", "add">>,
     <<"done", "idle">>, <<"add", "prompt">>, <<"prompt", "retrieve">>,
     <<"retrieve", "if">>, <<"retrieve", "done">>,
     <<"if", "summarize">>, <<"if", "finalize">>,
     <<"summarize", "finalize">>, <<"summarize", "done">>,
     <<"finalize", "done">>}

\* C20: a turn goes from the prompt to the retrieval stage, which it enters
\* once; when that stage ends without an error the turn enters the
\* summarization stage if the flag of its chat is set and skips it otherwise;
\* the summarization stage is entered at most once and never left for the
\* retrieval stage; a flag that is set stays set until then; a stage that
\* fails ends the turn with an error; the turn ends with a response or an
\* error, and a handler that has ended a turn runs no stage until the next
\* Query call.
C20_StageOrdering ==
    [][\A t \in Turns :
          LET a == turn[t].pc
              b == turn'[t].pc
          IN  /\ a # b =>
                    /\ <<a, b>> \in StageMoves
                    /\ (a \in {"idle", "done"} /\ b # "idle") <=> turn'[t].q > turn[t].q
                    /\ b = "retrieve" => ~turn'[t].stage2 /\ turn'[t].tools = {}
                    /\ a = "retrieve" => ~turn[t].stage2
                    /\ a = "if" => (b = "summarize" <=> ChatOf(t).doSummarize = SetTo(TRUE))
                    /\ b = "summarize" => ~turn[t].stage2 /\ turn'[t].stage2
                    /\ (a = "if" /\ b = "finalize") => ~turn'[t].stage2
                    /\ (a \in {"retrieve", "summarize"} /\ b = "done") => turn'[t].result.kind = "err"
                    /\ b = "done" => turn'[t].result.kind \in {"ok", "err"}
              /\ (a = b /\ a \in {"retrieve", "summarize"}) => turn'[t].stage2 = turn[t].stage2
              /\ (Running(turn[t]) /\ Running(turn'[t]) /\ ChatOf(t).doSummarize = SetTo(TRUE)) =>
                    chats'[turn'[t].chatId].doSummarize = SetTo(TRUE)]_vars

\* a turn has searched, summarized and returned the summary
C20_Witness ==
    \E t \in Turns :
        /\ turn[t].pc = "done"
        /\ "search" \in turn[t].tools
        /\ turn[t].stage2 /\ turn[t].summarized
        /\ turn[t].result.kind = "ok"

\* C21: a search tool call whose db.Search finds nothing returns the
\* sentinel, without an error, and leaves the flag of the chat as it was; a
\* call whose db.Search finds a page leaves the flag set to true, also when
\* wiki.Read fails on a page, and does not return the sentinel.
C21_SearchToolFlag ==
    [][\A t \in Turns, vector \in EmbedVecs, readOk, propagate \in BOOLEAN :
          SearchTool(t, vector, TRUE, readOk, propagate) =>
              LET c == turn[t].chatId
                  found == \E order \in Orders(DOMAIN rows) :
                              \E res \in dbSearch(rows, order, vector, searchMaxResults) : res # <<>>
              IN  /\ \A pages \in doSearch(vector) :
                        (searchToolOutput(pages, TRUE, readOk).out = NothingFound) <=> ~found
                  /\ c \in DOMAIN chats' =>
                        IF found
                        THEN /\ chats'[c].doSummarize = SetTo(TRUE)
                             /\ (~readOk /\ propagate) =>
                                    turn'[t].result = ErrResult("failed to read page")
                        ELSE /\ chats'[c].doSummarize = chats[c].doSummarize
                             /\ turn'[t].pc # "done"
                             /\ turn'[t].result = NoResult]_vars

\* a search found a page of a chat whose flag was unset, wiki.Read failed
\* and ended the turn, and the flag of the chat is set
C21_Witness ==
    /\ turn[1].pc = "done"
    /\ turn[1].result = ErrResult("failed to read page")
    /\ turn[1].chatId \in DOMAIN chats
    /\ chats[turn[1].chatId].doSummarize = SetTo(TRUE)
    /\ ~chats[turn[1].chatId].response.ok

\* C22: a call of the summarize tool sets the response of the chat to the
\* text and the relevant ids of the call under the wiki prefix, whatever the
\* write tool had set and whatever ids were passed as irrelevant; no later
\* step of the turn but another summarize call changes the response, and the
\* Query of a turn that called the tool and reached line 262 returns it.
C22_LastToolCallWins ==
    [][\A t \in Turns :
          LET c == turn[t].chatId
          IN  /\ \A relevant, irrelevant \in SUBSET Paths :
                    SummarizeTool(t, relevant, irrelevant) =>
                        chats'[c].response =
                            SetTo(PostResponse(Msg("summary", turn[t].q, ""), relevant,
                                               wikiPrefix, EmptyId))
              /\ (/\ turn[t].summarized /\ Running(turn[t]) /\ Running(turn'[t])
                  /\ ~\E relevant, irrelevant \in SUBSET Paths :
                        SummarizeTool(t, relevant, irrelevant)) =>
                    chats'[c].response = chats[c].response
              /\ (turn[t].summarized /\ turn[t].pc = "finalize" /\ turn'[t].pc = "done") =>
                    /\ turn'[t].result = OkResult(chats[c].response.val)
                    /\ turn'[t].result.resp.Message = Msg("summary", turn[t].q, "")
                    /\ turn'[t].result.resp.ReferencePrefix = wikiPrefix]_vars

\* a turn wrote a note, searched, summarized with no relevant id, and Query
\* returned the summary
C22_Witness ==
    /\ turn[1].pc = "done"
    /\ {"write", "search"} \subseteq turn[1].tools
    /\ turn[1].summarized
    /\ turn[1].result.kind = "ok"
    /\ turn[1].result.resp.Message.kind = "summary"
    /\ turn[1].result.resp.References = {}
    /\ docs # {}

\* C23: a step that removes a chat from the cache of recent chats removes
\* none that a Query is running its pipeline on.
C23_OnlyIdleEvicted ==
    [][\A id \in Elems(cache) \ Elems(cache') :
          \A t \in Turns : Running(turn[t]) => turn[t].chatId # id]_vars

\* C24: the Query of a turn in which the runtime wrote no message returns
\* the error "no messages", and no Query returns the message of the user as
\* its response.
C24_EmptyTurn ==
    \A t \in Turns :
        Returned(t) =>
            /\ (/\ turn[t].executed /\ turn[t].tools = {} /\ ~turn[t].summarized
                /\ turn[t].text = NoMsg) =>
                  turn[t].result = ErrResult("no messages")
            /\ turn[t].result.kind = "ok" => turn[t].result.resp.Message.kind # "user"

\* C25: a stage never makes more than toolRounds rounds of tool calls; with
\* the last round used up, the next step of the turn leaves the stage, for
\* the condition of If or for finalization unless an error ends the turn;
\* and every Query that was called returns.
C25_TurnTermination ==
    /\ [](\A t \in Turns : turn[t].round < toolRounds)
    /\ [][\A t \in Turns :
            (/\ turn[t].pc \in {"retrieve", "summarize"}
             /\ turn[t].round = toolRounds - 1
             /\ turn'[t] # turn[t]) =>
                \/ turn'[t].pc = (IF turn[t].pc = "retrieve" THEN "if" ELSE "finalize")
                \/ turn'[t].pc = "done" /\ turn'[t].result.kind = "err"]_vars
    /\ \A t \in Turns : (turn[t].pc \notin {"idle", "done"}) ~> (turn[t].pc = "done")

\* the retrieval stage of a turn ended with its rounds used up and no text
\* answer, and Query returned a response
C25_Witness ==
    /\ turn[1].pc = "done"
    /\ turn[1].executed
    /\ turn[1].tools # {}
    /\ turn[1].text = NoMsg
    /\ turn[1].result.kind = "ok"

\* C26: a call of the write tool in which Embed or wiki.Write fails leaves
\* the index and the response of the chat as they were and, when the runtime
\* passes the error on, ends the turn with that error; the index has a row
\* for a path written by the tool only if the page was written.
C26_WriteFailureAtomicity ==
    [][\A t \in Turns, path \in Paths, emb \in EmbedVecs, embedOk, writeOk, propagate \in BOOLEAN,
         stamp \in Nows :
          (WriteTool(t, path, emb, embedOk, writeOk, stamp, propagate) /\ ~(embedOk /\ writeOk)) =>
              /\ rows' = rows
              /\ turn[t].chatId \in DOMAIN chats' =>
                    chats'[turn[t].chatId].response = chats[turn[t].chatId].response
              /\ propagate => turn'[t].pc = "done" /\ turn'[t].result.kind = "err"]_vars

\* C27: once two Add calls for one id that ran at the same time have both
\* returned, the row of the id holds the later of their two timestamps and
\* the vector passed with it.
C27_ConcurrentLastWriteWins ==
    \A g, u \in Callers :
        (/\ g # u
         /\ calls[g].op = "Add" /\ calls[u].op = "Add"
         /\ calls[g].pc = "returned" /\ calls[u].pc = "returned"
         /\ calls[g].id = calls[u].id
         /\ calls[g].stamp > calls[u].stamp) =>
            rows[calls[g].id] = Row(calls[g].emb, calls[g].stamp)

\* C28: no step of Query unsets a variable of a chat: a flag that is set
\* stays set to true, a response that is set stays set, and it changes only
\* in a step in which a tool of a turn on that chat stores another one; so
\* both are found set when a later turn on the chat starts and when it is
\* finalized.
C28_VariablesNeverReset ==
    [][\A c \in DOMAIN chats \cap DOMAIN chats' :
          /\ chats[c].doSummarize.ok =>
                chats'[c].doSummarize = SetTo(TRUE) /\ chats[c].doSummarize = SetTo(TRUE)
          /\ chats[c].response.ok => chats'[c].response.ok
          /\ (chats[c].response.ok /\ chats'[c].response # chats[c].response) =>
                \E t \in Turns :
                    /\ turn[t].chatId = c /\ turn[t].pc \in {"retrieve", "summarize"}
                    /\ chats'[c].last = Msg("function", turn[t].q, "")]_vars

\* the third turn of a chat, in which the model called no tool, is finalized
\* with the flag and the response that an earlier turn has set
C28_Witness ==
    /\ turn[1].pc = "finalize"
    /\ turn[1].q = 3
    /\ turn[1].tools = {} /\ ~turn[1].summarized
    /\ ChatOf(1).doSummarize = SetTo(TRUE)
    /\ ChatOf(1).response.ok
    /\ ChatOf(1).response.val.Message.q < 3

\* C29: the callback of loadEmbeddings on a note that does not decode adds
\* no row: the index is what it was, NumRows with it, and it holds no row
\* under the empty id; the notes not yet visited are still loaded.
C29_LoadSkipsCorrupt ==
    [][\A i \in 1..MaxNotes :
          (LoadNote(i) /\ notes.recs[i] = CorruptNote) =>
              /\ rows' = rows
              /\ dbNumRows(rows') = dbNumRows(rows)
              /\ "" \notin DOMAIN rows'
              /\ notes'.recs = notes.recs]_vars

\* C30: while and after an index request is handled the running index is
\* the one the request found, so that NumRows, DocStamp and Search answer
\* as before; the notes are those found plus one for each path indexed, in
\* order, also when a later path failed and ended the request; and after a
\* restart the index holds a row for every path that has a note.
C30_IndexEndpointFrame ==
    /\ [](calls[1].op = "Index" =>
            /\ rows = calls[1].rows0
            /\ dbNumRows(rows) = dbNumRows(calls[1].rows0)
            /\ \A id \in Ids : dbDocStamp(rows, id) = dbDocStamp(calls[1].rows0, id)
            /\ \A query \in LoadVecs :
                  doSearch(query) =
                      {[i \in 1..Len(res) |-> res[i].Path] :
                          res \in UNION {dbSearch(calls[1].rows0, order, query, searchMaxResults) :
                                           order \in Orders(DOMAIN calls[1].rows0)}}
            /\ Len(notes.recs) = calls[1].k + Len(calls[1].res)
            /\ \A i \in 1..Len(calls[1].res) : notes.recs[calls[1].k + i].ID = calls[1].res[i]
            /\ calls[1].pc = "returned" => calls[1].got = <<>>
            /\ calls[1].pc = "failed" => calls[1].got # <<>>)
    /\ [][Restart => \A i \in 1..Len(notes.recs) : notes.recs[i].ID \in DOMAIN rows']_vars

\* a request indexed a page that the running index does not hold, failed on
\* the next path, and the running index, which is not empty, has no row for
\* the page
C30_Witness ==
    /\ calls[1].op = "Index" /\ calls[1].pc = "failed"
    /\ calls[1].res # <<>>
    /\ calls[1].res[1] \notin DOMAIN rows
    /\ rows # << >>

\* C9: a Query whose pipeline finished and whose retrieval stage called no
\* tool returns the last text answer the model gave in this call, with no
\* references.
C9_FreeTextFallback ==
    \A t \in Turns :
        (Returned(t) /\ turn[t].executed /\ turn[t].tools = {}) =>
            /\ turn[t].result.kind = "ok"
            /\ turn[t].result.resp.Message = turn[t].text
            /\ turn[t].result.resp.References = {}

=============================================================================
